---- MODULE Spec2Model ----
(***************************************************************************)
(* Model of sipnet.Listener (src/sipnet/listen.go): Listen, the TCP and   *)
(* UDP transport loops with the UDP pool, the unbuffered requestChannel,   *)
(* AcceptRequest with its receivedBranches duplicate filter, the           *)
(* branchJanitor sweep and Close.                                          *)
(*                                                                         *)
(* Time is counted in seconds.  A task's local computation takes no time:  *)
(* the clock advances only while every task is suspended (on the channel,  *)
(* a socket call, the janitor's sleep) or outside a call, and the janitor  *)
(* wakes as soon as its sleep is over.                                     *)
(*                                                                         *)
(* l.closed is a plain bool shared by all tasks; its write is a step of    *)
(* its own and every read takes the value at the moment of the read, so a  *)
(* read that races with the write sees either value.                       *)
(***************************************************************************)
EXTENDS Integers, Sequences, FiniteSets, TLC

\* ---- bounds of the model ----
MaxTime == 40          \* the clock stops advancing here
TickStep == 10         \* granularity of the clock
MaxMsgs == 2           \* requests read from the network over a run
MaxCloseCalls == 1     \* Close calls made by the application
MaxFaults == 2         \* transport failures (Accept / ReadFrom on an open socket)

\* ---- program constants ----
SweepPeriod == 10      \* time.Sleep(time.Second * 10)
Retention == 30        \* 30*time.Second
MinBranchLen == 8      \* len(branch) < 8
CookieLen == 7         \* branch[:7]
MagicCookie == <<"z", "9", "h", "G", "4", "b", "K">>

\* ---- tasks ----
Consumers == {"c1", "c2"}               \* application tasks calling AcceptRequest
Loops == {"tcp", "udp"}                 \* handleTCPListening, handleUDPListening
CloseCallers == Loops \union {"app"}    \* tasks that run Close
Senders == Loops \union {"rd"}          \* tasks that send on requestChannel

\* ---- inputs: the branch arguments and Via headers a request may carry ----
BranchA == MagicCookie \o <<"1">>
BranchEmpty == << >>
BranchShort == <<"s", "h", "o", "r", "t">>
BranchCookieOnly == MagicCookie
BranchNoCookie == <<"x", "9", "h", "G", "4", "b", "K", "1">>
Branches == {BranchA, BranchEmpty, BranchShort, BranchCookieOnly, BranchNoCookie}
\* a Via header: absent, unparsable, or parsed with a branch argument
Vias == {[form |-> "missing", branch |-> BranchEmpty],
         [form |-> "garbled", branch |-> BranchEmpty]}
        \union {[form |-> "ok", branch |-> b] : b \in Branches}

ValidVias == {[form |-> "ok", branch |-> BranchA]}

\* ---- inputs: the remote addresses datagrams come from ----
Addrs == {"a1", "a2"}

\* ---- the workloads: what the environment does over one run ----
\* time: how far the clock runs; msgs, vias: the requests that arrive;
\* conns: TCP connections accepted; faults: transport failures; closes: Close
\* calls of the application; eio: whether closing a socket can fail in the OS;
\* callers: the application tasks that call AcceptRequest; addrs: the remote
\* addresses datagrams come from
Traffic ==
  [time |-> MaxTime, msgs |-> MaxMsgs, vias |-> Vias, conns |-> 1, faults |-> 0,
   closes |-> 0, eio |-> FALSE, callers |-> {"c1"}, addrs |-> {"a1"}]
Shutdown ==
  [time |-> 0, msgs |-> 1, vias |-> ValidVias, conns |-> 1,
   faults |-> MaxFaults, closes |-> MaxCloseCalls, eio |-> FALSE, callers |-> {"c1"}, addrs |-> {"a1"}]
CloseErrors ==
  [time |-> TickStep, msgs |-> 0, vias |-> {}, conns |-> 0, faults |-> MaxFaults - 1,
   closes |-> MaxCloseCalls + 1, eio |-> TRUE, callers |-> {}, addrs |-> {}]
Concurrent ==
  [time |-> 0, msgs |-> MaxMsgs, vias |-> ValidVias, conns |-> 1, faults |-> 0,
   closes |-> 0, eio |-> FALSE, callers |-> {"c1", "c2"}, addrs |-> {"a1"}]
Peers ==
  [time |-> 0, msgs |-> MaxMsgs, vias |-> ValidVias, conns |-> 0, faults |-> 0,
   closes |-> 0, eio |-> FALSE, callers |-> {"c1"}, addrs |-> Addrs]
AgedShutdown ==
  [time |-> MaxTime, msgs |-> 1, vias |-> ValidVias, conns |-> 0, faults |-> 0,
   closes |-> MaxCloseCalls, eio |-> FALSE, callers |-> {"c1"}, addrs |-> {"a1"}]
Workloads == {Traffic, Shutdown, CloseErrors, Concurrent, Peers, AgedShutdown}

NoVia == [form |-> "none", branch |-> BranchEmpty]
NoItem == [kind |-> "none", via |-> NoVia, conn |-> "nil", err |-> "nil"]
NoRet == [req |-> NoVia, conn |-> "nil", err |-> "none"]
NoTime == -1
NoListenRet == [listener |-> FALSE, err |-> "none"]
NoAttempt == [tcp |-> "none", udp |-> "none"]
NoEv == [what |-> "none", via |-> NoVia, conn |-> "nil", err |-> "none",
         at |-> NoTime, prev |-> NoTime]

VARIABLES
  load,              \* the workload of this run (never changes)
  listenPc,          \* position of the application's Listen call
  listenRet,         \* what Listen returned: whether a Listener, and the error
  now,               \* time.Now(), in seconds
  closed,            \* l.closed
  sock,              \* sock[t]: "none", "open" or "closed", for the TCP / UDP socket
  receivedBranches,  \* l.receivedBranches: branch -> time recorded, NoTime when absent
  udpPool,           \* l.udpPool: remote address -> connection, "nil" when absent
  branchMutex,       \* l.branchMutex: the task holding it, or "free"
  jpc, jtimer,       \* branchJanitor: position, seconds slept so far
  lpc,               \* lpc[t]: position of transport loop t
  cpc, cerr,         \* cpc[p], cerr[p]: position and local err of p's running Close
  cres,              \* history: cres[p], what the socket closes of p's running Close returned
  out,               \* out[s]: the item task s is blocked sending on requestChannel
  rpc,               \* position of the accepted TCP connection's read path
  apc, resp,         \* apc[c], resp[c]: position and received item of c's AcceptRequest
  ret,               \* ret[c]: what c's last AcceptRequest call returned
  cret,              \* history: what the last completed Close call returned
  lastRet,           \* history: lastRet[b], when a request with branch b was last returned
  ev,                \* history: what became of the last request taken off the channel
  hist               \* history: counters over the run

vars == <<load, listenPc, listenRet, cres, udpPool, now, closed, sock, receivedBranches, branchMutex, jpc, jtimer, lpc,
          cpc, cerr, out, rpc, apc, resp, ret, cret, lastRet, ev, hist>>

\* ------------------------------------------------------------------------
\* Pure helpers
\* ------------------------------------------------------------------------

\* branch[:7], as Go slices it (only used when len(branch) >= 8)
Prefix(b, n) == SubSeq(b, 1, n)

\* line 153: branch == "" || len(branch) < 8 || branch[:7] != "z9hG4bK"
InvalidBranchNoCookieCheck(b) == b = << >> \/ Len(b) < MinBranchLen
InvalidBranchEmptyOnly(b) == b = << >>
InvalidBranch(b) ==
  b = << >> \/ Len(b) < MinBranchLen \/ Prefix(b, CookieLen) # MagicCookie

\* ParseVia(resp.req.Header.Get("Via")): fails on an absent or unparsable header
ParseViaErr(via) == IF via.form = "ok" THEN "nil" ELSE "ErrInvalidBranch"

\* line 82: time.Now().Sub(t) > 30*time.Second
ExpiredEarly(t) == now - t > SweepPeriod
Expired(t) == now - t > Retention

Found(b) == receivedBranches[b] # NoTime

\* lines 80, 157: branchMutex.Lock() goes through only while no task holds it
MutexIgnored == TRUE
MutexFree == branchMutex = "free"

\* sender s is blocked in its send on requestChannel
SenderReady(s) ==
  /\ out[s] # NoItem
  /\ IF s \in Loops THEN lpc[s] = "send" ELSE rpc = "send"

\* every task is suspended or outside a call: the clock may advance
Quiescent ==
  /\ jpc \in {"sleep", "done"}
  /\ \A t \in Loops : lpc[t] \in {"listen", "send", "done"}
  /\ cpc["app"] = "none"
  /\ rpc \in {"none", "read", "send"}
  /\ \A c \in Consumers : apc[c] \in {"idle", "recv"}

\* the application is about to call Listen: no socket, no task yet
Init ==
  /\ load \in Workloads
  /\ listenPc = "tcp"
  /\ listenRet = NoListenRet
  /\ now = 0
  /\ closed = FALSE
  /\ sock = [t \in Loops |-> "none"]
  /\ receivedBranches = [b \in Branches |-> NoTime]
  /\ udpPool = [a \in Addrs |-> "nil"]
  /\ branchMutex = "free"
  /\ jpc = "off" /\ jtimer = 0
  /\ lpc = [t \in Loops |-> "off"]
  /\ cpc = [p \in CloseCallers |-> "none"]
  /\ cerr = [p \in CloseCallers |-> "nil"]
  /\ cres = [p \in CloseCallers |-> NoAttempt]
  /\ out = [s \in Senders |-> NoItem]
  /\ rpc = "none"
  /\ apc = [c \in Consumers |-> "idle"]
  /\ resp = [c \in Consumers |-> NoItem]
  /\ ret = [c \in Consumers |-> NoRet]
  /\ cret = [by |-> "none", err |-> "nil"]
  /\ lastRet = [b \in Branches |-> NoTime]
  /\ ev = NoEv
  /\ hist = [msgs |-> 0, conns |-> 0, faults |-> 0, appCloses |-> 0, closesDone |-> 0,
             errRets |-> 0, reqAfterErr |-> FALSE, udpConns |-> 0, from |-> "none"]

\* ------------------------------------------------------------------------
\* Listen (lines 39-71)
\* ------------------------------------------------------------------------

\* lines 47, 53: tcpListener.Close() before the error is returned
LeakOnFail == "open"
ReleaseOnFail == "closed"

\* lines 40-43: net.Listen("tcp", addr)
ListenTCP(ok) ==
  /\ listenPc = "tcp"
  /\ IF ok
       THEN /\ sock' = [sock EXCEPT !["tcp"] = "open"]
            /\ listenPc' = "resolve"
            /\ listenRet' = listenRet
       ELSE /\ sock' = sock
            /\ listenPc' = "failed"
            /\ listenRet' = [listener |-> FALSE, err |-> "EListenTCP"]
  /\ UNCHANGED <<load, cres, udpPool, now, closed, receivedBranches, branchMutex, jpc,
                 jtimer, lpc, cpc, cerr, out, rpc, apc, resp, ret, cret, lastRet, ev, hist>>

\* lines 45-49: net.ResolveUDPAddr("udp", addr)
ListenResolve(ok) ==
  /\ listenPc = "resolve"
  /\ IF ok
       THEN /\ sock' = sock
            /\ listenPc' = "udp"
            /\ listenRet' = listenRet
       ELSE /\ sock' = [sock EXCEPT !["tcp"] = ReleaseOnFail]
            /\ listenPc' = "failed"
            /\ listenRet' = [listener |-> FALSE, err |-> "EResolve"]
  /\ UNCHANGED <<load, cres, udpPool, now, closed, receivedBranches, branchMutex, jpc,
                 jtimer, lpc, cpc, cerr, out, rpc, apc, resp, ret, cret, lastRet, ev, hist>>

\* lines 51-55: net.ListenUDP("udp", udpAddr)
ListenUDP(ok) ==
  /\ listenPc = "udp"
  /\ IF ok
       THEN /\ sock' = [sock EXCEPT !["udp"] = "open"]
            /\ listenPc' = "start"
            /\ listenRet' = listenRet
       ELSE /\ sock' = [sock EXCEPT !["tcp"] = ReleaseOnFail]
            /\ listenPc' = "failed"
            /\ listenRet' = [listener |-> FALSE, err |-> "EListenUDP"]
  /\ UNCHANGED <<load, cres, udpPool, now, closed, receivedBranches, branchMutex, jpc,
                 jtimer, lpc, cpc, cerr, out, rpc, apc, resp, ret, cret, lastRet, ev, hist>>

\* lines 57-70: build the Listener, start the three tasks, return it
ListenStart ==
  /\ listenPc = "start"
  /\ jpc' = "sleep"
  /\ lpc' = [t \in Loops |-> "listen"]
  /\ listenPc' = "ready"
  /\ listenRet' = [listener |-> TRUE, err |-> "nil"]
  /\ UNCHANGED <<load, cres, udpPool, now, closed, sock, receivedBranches, branchMutex,
                 jtimer, cpc, cerr, out, rpc, apc, resp, ret, cret, lastRet, ev, hist>>

\* ------------------------------------------------------------------------
\* The clock
\* ------------------------------------------------------------------------
Min(a, b) == IF a < b THEN a ELSE b

Tick ==
  /\ Quiescent
  /\ ~(jpc = "sleep" /\ jtimer >= SweepPeriod)
  /\ now + TickStep <= load.time
  /\ now' = now + TickStep
  /\ jtimer' = IF jpc = "sleep" THEN Min(jtimer + TickStep, SweepPeriod) ELSE jtimer
  /\ UNCHANGED <<load, listenPc, listenRet, cres, udpPool, closed, sock, receivedBranches, branchMutex, jpc, lpc, cpc, cerr,
                 out, rpc, apc, resp, ret, cret, lastRet, ev, hist>>

\* ------------------------------------------------------------------------
\* branchJanitor (lines 73-88)
\* ------------------------------------------------------------------------

\* lines 76-78: if listener.closed { return }
JanitorSeesClosedNever == FALSE
JanitorSeesClosed == closed

\* lines 75-78: the sleep ends; return if closed
JanitorWake ==
  /\ jpc = "sleep"
  /\ jtimer >= SweepPeriod
  /\ jpc' = IF JanitorSeesClosed THEN "done" ELSE "lock"
  /\ UNCHANGED <<load, listenPc, listenRet, cres, udpPool, now, closed, sock, receivedBranches, branchMutex, jtimer, lpc, cpc,
                 cerr, out, rpc, apc, resp, ret, cret, lastRet, ev, hist>>

\* line 80: listener.branchMutex.Lock()
JanitorLock ==
  /\ jpc = "lock"
  /\ MutexFree
  /\ branchMutex' = "jan"
  /\ jpc' = "sweep"
  /\ UNCHANGED <<load, listenPc, listenRet, cres, udpPool, now, closed, sock, receivedBranches, jtimer, lpc, cpc, cerr, out,
                 rpc, apc, resp, ret, cret, lastRet, ev, hist>>

\* lines 81-86: delete every expired entry, unlock, sleep again
JanitorSweep ==
  /\ jpc = "sweep"
  /\ receivedBranches' =
       [b \in Branches |->
          IF Found(b) /\ Expired(receivedBranches[b]) THEN NoTime
          ELSE receivedBranches[b]]
  /\ branchMutex' = "free"
  /\ jpc' = "sleep"
  /\ jtimer' = 0
  /\ UNCHANGED <<load, listenPc, listenRet, cres, udpPool, now, closed, sock, lpc, cpc, cerr, out, rpc, apc, resp, ret, cret,
                 lastRet, ev, hist>>

\* ------------------------------------------------------------------------
\* The requests read from the network
\* ------------------------------------------------------------------------
ReqItem(via, conn) == [kind |-> "req", via |-> via, conn |-> conn, err |-> "nil"]
ErrItem(e) == [kind |-> "err", via |-> NoVia, conn |-> "nil", err |-> e]

\* the record of what became of the request of item `item`
Event(what, item, err) ==
  [what |-> what, via |-> item.via, conn |-> item.conn, err |-> err, at |-> now,
   prev |-> lastRet[item.via.branch]]

\* ------------------------------------------------------------------------
\* handleTCPListening / handleUDPListening (lines 90-135)
\* ------------------------------------------------------------------------

\* lines 94, 109: Accept succeeds; registerTCPConn starts the connection's read path
TcpAccept ==
  /\ lpc["tcp"] = "listen"
  /\ sock["tcp"] = "open"
  /\ hist.conns < load.conns
  /\ rpc = "none"
  /\ rpc' = "read"
  /\ hist' = [hist EXCEPT !.conns = @ + 1]
  /\ UNCHANGED <<load, listenPc, listenRet, cres, udpPool, now, closed, sock, receivedBranches, branchMutex, jpc, jtimer, lpc,
                 cpc, cerr, out, apc, resp, ret, cret, lastRet, ev>>

\* ------------------------------------------------------------------------
\* The UDP pool: Listener.getUDPConnFromPool(addr), called at line 133
\* ------------------------------------------------------------------------
UdpConnIds == <<"u1", "u2", "u3">>

\* the connection instance a creation yields: the next one never handed out
NewUdpConn == UdpConnIds[Min(hist.udpConns + 1, Len(UdpConnIds))]

\* lookup-or-insert under udpPoolMutex: the connection of addr, created when
\* the pool has none
PoolMissAlways(addr) == TRUE
PoolMiss(addr) == udpPool[addr] = "nil"
GetUDPConnFromPool(addr) == IF PoolMiss(addr) THEN NewUdpConn ELSE udpPool[addr]

\* lines 118, 133: ReadFrom succeeds; the datagram goes to the connection of
\* its sender's address and its request is pushed to the channel
UdpRead(via, addr) ==
  /\ lpc["udp"] = "listen"
  /\ sock["udp"] = "open"
  /\ hist.msgs < load.msgs
  /\ via \in load.vias
  /\ addr \in load.addrs
  /\ udpPool' = [udpPool EXCEPT ![addr] = GetUDPConnFromPool(addr)]
  /\ hist' = [hist EXCEPT !.msgs = @ + 1, !.from = addr,
                          !.udpConns = IF PoolMiss(addr) THEN Min(@ + 1, Len(UdpConnIds))
                                       ELSE @]
  /\ out' = [out EXCEPT !["udp"] = ReqItem(via, GetUDPConnFromPool(addr))]
  /\ lpc' = [lpc EXCEPT !["udp"] = "deliver"]
  /\ UNCHANGED <<load, listenPc, listenRet, cres, now, closed, sock, receivedBranches, branchMutex, jpc, jtimer, cpc,
                 cerr, rpc, apc, resp, ret, cret, lastRet, ev>>

\* lines 94-95, 118-119: the blocking socket call returns an error, because the
\* socket was closed or because the transport failed
ListenFail(t) ==
  /\ lpc[t] = "listen"
  /\ lpc' = [lpc EXCEPT ![t] = "failed"]
  /\ IF sock[t] = "closed"
       THEN hist' = hist
       ELSE /\ hist.faults < load.faults
            /\ hist' = [hist EXCEPT !.faults = @ + 1]
  /\ UNCHANGED <<load, listenPc, listenRet, cres, udpPool, now, closed, sock, receivedBranches, branchMutex, jpc, jtimer, cpc,
                 cerr, out, rpc, apc, resp, ret, cret, lastRet, ev>>

\* lines 96-104, 120-128: return silently if closed, else send the error item
SilentIfClosedNever(t) == FALSE
SilentIfClosed(t) == closed

LoopAfterFail(t) ==
  /\ lpc[t] = "failed"
  /\ IF SilentIfClosed(t)
       THEN /\ lpc' = [lpc EXCEPT ![t] = "exit"]
            /\ out' = out
       ELSE /\ lpc' = [lpc EXCEPT ![t] = "deliver"]
            /\ out' = [out EXCEPT ![t] = ErrItem(IF t = "tcp" THEN "EAccept" ELSE "ERead")]
  /\ UNCHANGED <<load, listenPc, listenRet, cres, udpPool, now, closed, sock, receivedBranches, branchMutex, jpc, jtimer, cpc,
                 cerr, rpc, apc, resp, ret, cret, lastRet, ev, hist>>

\* a send on a channel with room: the item is handed over and the loop goes on
LoopSendBuffered(t) ==
  /\ lpc[t] = "deliver"
  /\ out' = [out EXCEPT ![t] = NoItem]
  /\ lpc' = [lpc EXCEPT ![t] = IF out[t].kind = "err" THEN "exit" ELSE "listen"]
  /\ UNCHANGED <<load, listenPc, listenRet, cres, udpPool, now, closed, sock,
                 receivedBranches, branchMutex, jpc, jtimer, cpc, cerr, rpc, apc, resp, ret,
                 cret, lastRet, ev, hist>>

\* lines 100, 124, 133: the loop reaches its send on requestChannel, which was
\* made without a buffer (line 61), and blocks
LoopSend(t) ==
  /\ lpc[t] = "deliver"
  /\ lpc' = [lpc EXCEPT ![t] = "send"]
  /\ UNCHANGED <<load, listenPc, listenRet, cres, udpPool, now, closed, sock, receivedBranches, branchMutex, jpc, jtimer, cpc,
                 cerr, out, rpc, apc, resp, ret, cret, lastRet, ev, hist>>

\* the read path of an accepted TCP connection: parse a request, push it
ConnRead(via) ==
  /\ rpc = "read"
  /\ hist.msgs < load.msgs
  /\ via \in load.vias
  /\ hist' = [hist EXCEPT !.msgs = @ + 1]
  /\ out' = [out EXCEPT !["rd"] = ReqItem(via, "t1")]
  /\ rpc' = "send"
  /\ UNCHANGED <<load, listenPc, listenRet, cres, udpPool, now, closed, sock, receivedBranches, branchMutex, jpc, jtimer, lpc,
                 cpc, cerr, apc, resp, ret, cret, lastRet, ev>>

\* where sender s continues once its send on requestChannel has completed:
\* a loop returns after its error item (lines 106, 130) and reads on after a
\* request; the read path reads on
LpcAfterSend(s) ==
  IF s \in Loops
    THEN [lpc EXCEPT ![s] = IF out[s].kind = "err" THEN "exit" ELSE "listen"]
    ELSE lpc
RpcAfterSend(s) == IF s = "rd" THEN "read" ELSE rpc

\* ------------------------------------------------------------------------
\* Listener.Close (lines 173-192), run by the application or, deferred, by a
\* transport loop that returns (lines 91, 114)
\* ------------------------------------------------------------------------

\* what Close() of socket t returns: an already closed socket reports
\* "use of closed network connection"; a first close succeeds or fails in the OS
CloseFailure(t) == IF t = "tcp" THEN "EIOtcp" ELSE "EIOudp"
CloseResults == {"nil", "ErrNetClosing"} \union {CloseFailure(t) : t \in Loops}
SockCloseResults(t) ==
  IF sock[t] = "closed" THEN {"ErrNetClosing"}
  ELSE IF load.eio THEN {"nil", CloseFailure(t)} ELSE {"nil"}

\* line 174, entered by the application's call
AppClose ==
  /\ listenRet.listener
  /\ cpc["app"] = "none"
  /\ hist.appCloses < load.closes
  /\ closed' = TRUE
  /\ cpc' = [cpc EXCEPT !["app"] = "tcp"]
  /\ cerr' = [cerr EXCEPT !["app"] = "nil"]
  /\ cres' = [cres EXCEPT !["app"] = NoAttempt]
  /\ hist' = [hist EXCEPT !.appCloses = @ + 1]
  /\ UNCHANGED <<load, listenPc, listenRet, udpPool, now, sock, receivedBranches, branchMutex, jpc, jtimer, lpc, out,
                 rpc, apc, resp, ret, cret, lastRet, ev>>

\* line 174, entered by the deferred call of loop t
LoopClose(t) ==
  /\ lpc[t] = "exit"
  /\ closed' = TRUE
  /\ lpc' = [lpc EXCEPT ![t] = "closing"]
  /\ cpc' = [cpc EXCEPT ![t] = "tcp"]
  /\ cres' = [cres EXCEPT ![t] = NoAttempt]
  /\ UNCHANGED <<load, listenPc, listenRet, udpPool, now, sock, receivedBranches, branchMutex, jpc, jtimer, cerr, out,
                 rpc, apc, resp, ret, cret, lastRet, ev, hist>>

\* line 175: err := l.tcpListener.Close()
CloseTCP(p, r) ==
  /\ cpc[p] = "tcp"
  /\ r \in SockCloseResults("tcp")
  /\ sock' = [sock EXCEPT !["tcp"] = "closed"]
  /\ cerr' = [cerr EXCEPT ![p] = r]
  /\ cres' = [cres EXCEPT ![p].tcp = r]
  /\ cpc' = [cpc EXCEPT ![p] = "udp"]
  /\ UNCHANGED <<load, listenPc, listenRet, udpPool, now, closed, receivedBranches, branchMutex, jpc, jtimer, lpc, out,
                 rpc, apc, resp, ret, cret, lastRet, ev, hist>>

\* lines 176-180: the error Close goes on with, given its err e after the TCP
\* close and the result r of the UDP close
KeepLastErr(e, r) == IF r # "nil" THEN r ELSE e
KeepFirstErr(e, r) == IF e # "nil" THEN e ELSE r

\* lines 176-180: close the UDP socket too; keep the TCP error if there is one
CloseUDP(p, r) ==
  /\ cpc[p] = "udp"
  /\ r \in SockCloseResults("udp")
  /\ sock' = [sock EXCEPT !["udp"] = "closed"]
  /\ cerr' = [cerr EXCEPT ![p] = KeepFirstErr(cerr[p], r)]
  /\ cres' = [cres EXCEPT ![p].udp = r]
  /\ cpc' = [cpc EXCEPT ![p] = "drain"]
  /\ UNCHANGED <<load, listenPc, listenRet, udpPool, now, closed, receivedBranches, branchMutex, jpc, jtimer, lpc, out,
                 rpc, apc, resp, ret, cret, lastRet, ev, hist>>

\* lines 184-185: a sender is ready, the select receives its item and drops it
DrainRecv(p, s) ==
  /\ cpc[p] = "drain"
  /\ SenderReady(s)
  /\ out' = [out EXCEPT ![s] = NoItem]
  /\ lpc' = LpcAfterSend(s)
  /\ rpc' = RpcAfterSend(s)
  /\ ev' = IF out[s].kind = "req" THEN Event("drained", out[s], "none") ELSE ev
  /\ UNCHANGED <<load, listenPc, listenRet, cres, udpPool, now, closed, sock, receivedBranches, branchMutex, jpc, jtimer, cpc,
                 cerr, apc, resp, ret, cret, lastRet, hist>>

\* lines 186-187: the select takes default when no sender is ready
SelectWithoutDefault == FALSE
SelectDefault == \A s \in Senders : ~SenderReady(s)

\* lines 186-191: no sender is ready, the select takes default; return err
DrainExit(p) ==
  /\ cpc[p] = "drain"
  /\ SelectDefault
  /\ cpc' = [cpc EXCEPT ![p] = "none"]
  /\ cerr' = [cerr EXCEPT ![p] = "nil"]
  /\ cres' = [cres EXCEPT ![p] = NoAttempt]
  /\ cret' = [by |-> p, err |-> cerr[p]]
  /\ lpc' = IF p \in Loops THEN [lpc EXCEPT ![p] = "done"] ELSE lpc
  /\ hist' = [hist EXCEPT !.closesDone = Min(@ + 1, 1)]
  /\ UNCHANGED <<load, listenPc, listenRet, udpPool, now, closed, sock, receivedBranches, branchMutex, jpc, jtimer, out,
                 rpc, apc, resp, ret, lastRet, ev>>

\* ------------------------------------------------------------------------
\* Listener.AcceptRequest (lines 139-170)
\* ------------------------------------------------------------------------

\* the application calls AcceptRequest
Call(c) ==
  /\ listenRet.listener
  /\ c \in load.callers
  /\ apc[c] = "idle"
  /\ apc' = [apc EXCEPT ![c] = "check"]
  /\ ret' = [ret EXCEPT ![c] = NoRet]
  /\ UNCHANGED <<load, listenPc, listenRet, cres, udpPool, now, closed, sock, receivedBranches, branchMutex, jpc, jtimer, lpc,
                 cpc, cerr, out, rpc, resp, cret, lastRet, ev, hist>>

\* lines 141-143: if l.closed { return nil, nil, ErrClosed }
SeesClosedNever == FALSE
SeesClosed == closed

CheckClosed(c) ==
  /\ apc[c] = "check"
  /\ IF SeesClosed
       THEN /\ apc' = [apc EXCEPT ![c] = "idle"]
            /\ ret' = [ret EXCEPT ![c] = [req |-> NoVia, conn |-> "nil", err |-> "ErrClosed"]]
       ELSE /\ apc' = [apc EXCEPT ![c] = "recv"]
            /\ ret' = ret
  /\ UNCHANGED <<load, listenPc, listenRet, cres, udpPool, now, closed, sock, receivedBranches, branchMutex, jpc, jtimer, lpc,
                 cpc, cerr, out, rpc, resp, cret, lastRet, ev, hist>>

\* lines 146-155: the error AcceptRequest returns at once for a request, "nil"
\* when the request goes on to the duplicate filter
EarlyErr(via) ==
  IF ParseViaErr(via) # "nil" THEN ParseViaErr(via)
  ELSE IF InvalidBranch(via.branch) THEN "ErrInvalidBranch"
  ELSE "nil"

\* lines 144-155, 168: receive an item from sender s; return an error item, or a
\* request whose Via or branch is rejected, at once; otherwise go on to line 157
Recv(c, s) ==
  /\ apc[c] = "recv"
  /\ SenderReady(s)
  /\ out' = [out EXCEPT ![s] = NoItem]
  /\ lpc' = LpcAfterSend(s)
  /\ rpc' = RpcAfterSend(s)
  /\ LET item == out[s] IN
       IF item.kind = "err"
         THEN /\ ret' = [ret EXCEPT ![c] = [req |-> NoVia, conn |-> "nil", err |-> item.err]]
              /\ apc' = [apc EXCEPT ![c] = "idle"]
              /\ hist' = [hist EXCEPT !.errRets = Min(@ + 1, 2)]
              /\ UNCHANGED <<resp, ev>>
         ELSE IF EarlyErr(item.via) # "nil"
           THEN /\ ret' = [ret EXCEPT ![c] =
                             [req |-> item.via, conn |-> item.conn, err |-> EarlyErr(item.via)]]
                /\ apc' = [apc EXCEPT ![c] = "idle"]
                /\ ev' = Event("returned", item, EarlyErr(item.via))
                /\ hist' = [hist EXCEPT !.reqAfterErr = @ \/ hist.errRets > 0]
                /\ UNCHANGED resp
           ELSE /\ resp' = [resp EXCEPT ![c] = item]
                /\ apc' = [apc EXCEPT ![c] = "lock"]
                /\ UNCHANGED <<ret, ev, hist>>
  /\ UNCHANGED <<load, listenPc, listenRet, cres, udpPool, now, closed, sock, receivedBranches, branchMutex, jpc, jtimer, cpc, cerr,
                 cret, lastRet>>

\* line 157: l.branchMutex.Lock()
Lock(c) ==
  /\ apc[c] = "lock"
  /\ MutexFree
  /\ branchMutex' = c
  /\ apc' = [apc EXCEPT ![c] = "crit"]
  /\ UNCHANGED <<load, listenPc, listenRet, cres, udpPool, now, closed, sock, receivedBranches, jpc, jtimer, lpc, cpc, cerr, out,
                 rpc, resp, ret, cret, lastRet, ev, hist>>

\* line 160: l.branchMutex.Unlock() before the continue
HeldOnRepeat == branchMutex
UnlockOnRepeat == "free"

\* lines 158-162: look the branch up; a recorded branch is a repeat (unlock,
\* continue), a new one goes on to line 164 with the mutex still held
Filter(c) ==
  /\ apc[c] = "crit"
  /\ LET b == resp[c].via.branch IN
       IF Found(b)
         THEN /\ apc' = [apc EXCEPT ![c] = "check"]
              /\ branchMutex' = UnlockOnRepeat
              /\ resp' = [resp EXCEPT ![c] = NoItem]
              /\ ev' = Event("dropped", resp[c], "none")
         ELSE /\ apc' = [apc EXCEPT ![c] = "insert"]
              /\ UNCHANGED <<branchMutex, resp, ev>>
  /\ UNCHANGED <<load, listenPc, listenRet, cres, udpPool, now, closed, sock,
                 receivedBranches, jpc, jtimer, lpc, cpc, cerr, out, rpc, ret, cret,
                 lastRet, hist>>

\* lines 164-168: record the branch with time.Now(), unlock, return the request
Record(c) ==
  /\ apc[c] = "insert"
  /\ LET b == resp[c].via.branch IN
       /\ receivedBranches' = [receivedBranches EXCEPT ![b] = now]
       /\ lastRet' = [lastRet EXCEPT ![b] = now]
  /\ branchMutex' = "free"
  /\ resp' = [resp EXCEPT ![c] = NoItem]
  /\ apc' = [apc EXCEPT ![c] = "idle"]
  /\ ret' = [ret EXCEPT ![c] = [req |-> resp[c].via, conn |-> resp[c].conn, err |-> "nil"]]
  /\ ev' = Event("returned", resp[c], "nil")
  /\ hist' = [hist EXCEPT !.reqAfterErr = @ \/ hist.errRets > 0]
  /\ UNCHANGED <<load, listenPc, listenRet, cres, udpPool, now, closed, sock, jpc, jtimer,
                 lpc, cpc, cerr, out, rpc, cret>>

\* ------------------------------------------------------------------------
Next ==
  \/ \E ok \in BOOLEAN : ListenTCP(ok) \/ ListenResolve(ok) \/ ListenUDP(ok)
  \/ ListenStart
  \/ Tick
  \/ JanitorWake \/ JanitorLock \/ JanitorSweep
  \/ TcpAccept
  \/ \E via \in Vias : \E addr \in Addrs : UdpRead(via, addr)
  \/ \E via \in Vias : ConnRead(via)
  \/ \E t \in Loops : ListenFail(t) \/ LoopAfterFail(t) \/ LoopSend(t) \/ LoopClose(t)
  \/ AppClose
  \/ \E p \in CloseCallers : \E r \in CloseResults :
       CloseTCP(p, r) \/ CloseUDP(p, r)
  \/ \E p \in CloseCallers : \E s \in Senders : DrainRecv(p, s)
  \/ \E p \in CloseCallers : DrainExit(p)
  \/ \E c \in Consumers : Call(c) \/ CheckClosed(c) \/ Lock(c) \/ Filter(c) \/ Record(c)
  \/ \E c \in Consumers : \E s \in Senders : Recv(c, s)

Spec == Init /\ [][Next]_vars

TypeOK ==
  /\ now \in 0..load.time
  /\ closed \in BOOLEAN
  /\ branchMutex \in Consumers \union {"jan", "free"}
  /\ hist.msgs <= load.msgs

\* ------------------------------------------------------------------------
\* Fairness: every task that can take a step of its own eventually takes it.
\* The environment owes nothing: no request has to arrive, no transport has to
\* fail, and the application need not call AcceptRequest or Close.
\* ------------------------------------------------------------------------
JanitorStep == JanitorWake \/ JanitorLock \/ JanitorSweep
LoopStep(t) == LoopAfterFail(t) \/ LoopSend(t) \/ LoopClose(t)
SocketClosedStep(t) == sock[t] = "closed" /\ ListenFail(t)
CloseStep(p) ==
  \/ \E r \in CloseResults : CloseTCP(p, r) \/ CloseUDP(p, r)
  \/ \E s \in Senders : DrainRecv(p, s)
  \/ DrainExit(p)
AcceptStep(c) ==
  CheckClosed(c) \/ Lock(c) \/ Filter(c) \/ Record(c) \/ \E s \in Senders : Recv(c, s)

Fairness ==
  /\ WF_vars(JanitorStep)
  /\ \A t \in Loops : WF_vars(LoopStep(t)) /\ WF_vars(SocketClosedStep(t))
  /\ \A p \in CloseCallers : WF_vars(CloseStep(p))
  /\ \A c \in Consumers : WF_vars(AcceptStep(c))

FairSpec == Init /\ [][Next]_vars /\ Fairness

\* ------------------------------------------------------------------------
\* Properties
\* ------------------------------------------------------------------------
WellFormed(b) == Len(b) >= 8 /\ SubSeq(b, 1, 7) = <<"z", "9", "h", "G", "4", "b", "K">>
Malformed(via) == via.form # "ok" \/ ~WellFormed(via.branch)
Rejected(via, conn) == [req |-> via, conn |-> conn, err |-> "ErrInvalidBranch"]
ClosedRet == [req |-> NoVia, conn |-> "nil", err |-> "ErrClosed"]

\* C1: of the requests carrying one well-formed branch, no two that reach
\* AcceptRequest less than 30 seconds apart are both returned, and a request is
\* discarded only when one carrying its branch was returned before it: two
\* arrivals less than 30 seconds apart are returned exactly once.
C1_DuplicateWithinWindowReturnedOnce ==
  /\ (ev.what = "returned" /\ ev.err = "nil" /\ ev.prev # NoTime)
       => ~(ev.at - ev.prev < 30)
  /\ ev.what = "dropped" => (ev.prev # NoTime /\ ev.prev <= ev.at)

\* a repeat that arrived 20 seconds after the returned request, with sweeps
\* of the janitor in between, was discarded
C1_Witness ==
  /\ ev.what = "dropped" /\ WellFormed(ev.via.branch)
  /\ ev.at - ev.prev = 2 * SweepPeriod

\* C2: a request whose branch was last returned more than 30 seconds before
\* it arrives is never discarded as a repeat.
C2_StaleEntryNeverSuppresses ==
  ev.what = "dropped" => ~(ev.at - ev.prev > 30)

\* C3: once a Close call has completed, an AcceptRequest call at its closed
\* check returns (nil, nil, ErrClosed) and never goes on to the channel.
C3_AcceptAfterCloseReturnsErrClosed ==
  [][\A c \in Consumers :
       (hist.closesDone >= 1 /\ apc[c] = "check" /\ apc'[c] # "check")
         => (apc'[c] = "idle" /\ ret'[c] = ClosedRet)]_vars

C3_Witness ==
  /\ hist.closesDone >= 1 /\ cret.by = "app"
  /\ apc["c1"] = "idle" /\ ret["c1"] = ClosedRet
  /\ \E s \in Senders : SenderReady(s)

\* C4: an AcceptRequest call that is blocked on the channel once closing has
\* begun eventually returns.
C4_BlockedAcceptReturnsAfterClose ==
  \A c \in Consumers : (apc[c] = "recv" /\ closed) ~> (apc[c] = "idle")

\* C5: no Close call of the application returns the error of closing a socket
\* that an earlier Close had already closed.
C5_SecondCloseReturnsNoSpuriousError ==
  ~(cret.by = "app" /\ cret.err = "ErrNetClosing")

\* C6: over a run AcceptRequest returns a transport error at most once, and
\* after it has returned one it returns no request.
C6_TransportErrorSurfacedOnce ==
  hist.errRets <= 1 /\ ~hist.reqAfterErr

\* C7: whenever the blocking socket call of a transport loop fails, Close is
\* eventually run: closed is set, both sockets are closed, both loops end.
C7_LoopFailureCollapsesListener ==
  \A t \in Loops :
    (lpc[t] = "failed")
      ~> (closed /\ \A u \in Loops : sock[u] = "closed" /\ lpc[u] = "done")

\* C8: once a Close call has returned, a task blocked in a send on
\* requestChannel does not stay blocked forever.
C8_NoProducerBlockedAfterClose ==
  \A s \in Senders :
    [](hist.closesDone >= 1 /\ SenderReady(s) => <>(~SenderReady(s)))

C10_OnlyValidatedBranchesRecorded ==
  /\ [](\A b \in Branches : receivedBranches[b] # NoTime => WellFormed(b))
  /\ [][(\E c \in Consumers : apc[c] = "recv" /\ apc'[c] = "idle")
          => receivedBranches' = receivedBranches]_vars

C10_Witness ==
  /\ receivedBranches[BranchA] # NoTime
  /\ ev.what = "returned" /\ ev.via.branch = BranchNoCookie

C12_CloseReturnsFirstSocketError ==
  [][\A p \in CloseCallers :
       (cpc[p] = "drain" /\ cpc'[p] = "none")
         => /\ cres[p].tcp # "none" /\ cres[p].udp # "none"
            /\ \A t \in Loops : sock[t] = "closed"
            /\ cret'.by = p
            /\ (cres[p].tcp = "nil" /\ cres[p].udp = "nil") => cret'.err = "nil"
            /\ cres[p].tcp # "nil" => cret'.err = cres[p].tcp
            /\ (cres[p].tcp = "nil" /\ cres[p].udp # "nil") => cret'.err = cres[p].udp]_vars

\* both closes of the application's Close failed in the OS, and the err the
\* call goes on to return is the TCP error
C12_Witness ==
  /\ cpc["app"] = "drain" /\ \A t \in Loops : sock[t] = "closed"
  /\ cres["app"] = [tcp |-> "EIOtcp", udp |-> "EIOudp"]
  /\ cerr["app"] = "EIOtcp"

\* C13: a Listen call that failed has returned an error and no Listener, has
\* left no socket open and has started none of the three tasks; a Listen call
\* that returns a Listener returns no error, with both sockets open and the
\* janitor and both transport loops running; no task runs before that.
C13_ListenFailsCleanOrStartsAll ==
  /\ [](listenPc = "failed"
          => /\ ~listenRet.listener /\ listenRet.err \notin {"nil", "none"}
             /\ \A t \in Loops : sock[t] # "open")
  /\ [](listenPc # "ready" => (jpc = "off" /\ \A t \in Loops : lpc[t] = "off"))
  /\ [][(listenPc # "ready" /\ listenPc' = "ready")
          => /\ listenRet' = [listener |-> TRUE, err |-> "nil"]
             /\ \A t \in Loops : sock'[t] = "open" /\ lpc'[t] = "listen"
             /\ jpc' = "sleep"]_vars

\* the UDP listen failed after the TCP listener had been opened: it is closed
C13_Witness ==
  /\ listenPc = "failed" /\ listenRet.err = "EListenUDP"
  /\ sock = [t \in Loops |-> IF t = "tcp" THEN "closed" ELSE "none"]

\* C14: no two AcceptRequest calls are between lines 157 and 165 at once, and
\* while no entry can have expired no two calls have both returned a request
\* carrying the same branch: of two concurrent calls that received the same
\* fresh branch one returns its request and the other finds the entry.
C14_CheckAndInsertAtomic ==
  \A c, d \in Consumers :
    c # d =>
      /\ ~(apc[c] \in {"crit", "insert"} /\ apc[d] \in {"crit", "insert"})
      /\ (now < Retention /\ ret[c].err = "nil" /\ ret[d].err = "nil")
           => ret[c].req.branch # ret[d].req.branch

\* one call has found the branch new and is about to record it while another,
\* which received the same branch, waits for the mutex
C14_Witness ==
  /\ apc["c1"] = "insert" /\ branchMutex = "c1"
  /\ apc["c2"] = "lock" /\ resp["c2"].via = resp["c1"].via
  /\ ~Found(resp["c1"].via.branch)

\* C15: a transport loop whose blocking socket call failed sends an error item
\* only if it reads closed as false, and then its socket is still open, so the
\* failure was not made by Close; if it reads closed as true it returns
\* without sending.  A loop makes an error item only at that point, which it
\* reaches only from its blocking call and after which it never calls Accept /
\* ReadFrom again: at most one error item over its life.
C15_LoopFailureHandledOnce ==
  [][\A t \in Loops :
       /\ (lpc[t] = "failed" /\ lpc'[t] # "failed")
            => IF closed
                 THEN lpc'[t] = "exit" /\ out'[t] = NoItem
                 ELSE out'[t].kind = "err" /\ sock[t] = "open"
       /\ (out'[t].kind = "err" /\ out[t].kind # "err") => lpc[t] = "failed"
       /\ (lpc'[t] = "failed" /\ lpc[t] # "failed") => lpc[t] = "listen"
       /\ (lpc[t] \in {"failed", "exit", "closing", "done"} \/ out[t].kind = "err")
            => lpc'[t] # "listen"]_vars

\* Accept failed on the open listener and the TCP loop is sending its error
\* item; the UDP loop, whose ReadFrom failed because a Close had closed its
\* socket, has ended without sending one
C15_Witness ==
  /\ hist.faults = 1 /\ out["tcp"] = ErrItem("EAccept") /\ lpc["tcp"] = "send"
  /\ lpc["udp"] = "done" /\ out["udp"] = NoItem

\* C16: branchMutex is held only by a task between its Lock and its Unlock
\* (the janitor in its sweep, an AcceptRequest call at lines 158-165), never
\* by a task that is suspended, at its closed check or outside a call; and
\* the holder can always take its next step, which releases the mutex or, in
\* AcceptRequest, is followed by the step that does.
C16_MutexNotHeldWhileSuspended ==
  /\ branchMutex = "jan" <=> jpc = "sweep"
  /\ \A c \in Consumers : branchMutex = c <=> apc[c] \in {"crit", "insert"}
  /\ branchMutex = "jan" => ENABLED JanitorSweep
  /\ \A c \in Consumers : branchMutex = c => ENABLED (Filter(c) \/ Record(c))

\* the janitor waits at its Lock for the mutex an AcceptRequest call holds
C16_Witness ==
  /\ jpc = "lock" /\ branchMutex = "c1" /\ apc["c1"] = "insert"

\* C17: once a Close call has completed, no sweep of the janitor changes
\* receivedBranches, and the janitor's next wake-up ends it.
C17_NoSweepAfterClose ==
  [][hist.closesDone >= 1
       => /\ (jpc = "sweep" /\ jpc' # "sweep") => receivedBranches' = receivedBranches
          /\ (jpc = "sleep" /\ jpc' # "sleep") => jpc' = "done"]_vars

\* C17 (amended): a wake-up of the janitor after closed has been set ends the
\* janitor without touching receivedBranches or the mutex, and an ended
\* janitor never runs again; only a sweep whose closed check came before the
\* Close can still run after it.
C17_WakeUpAfterCloseEndsJanitor ==
  [][/\ (closed /\ jpc = "sleep")
         => /\ jpc' \in {"sleep", "done"}
            /\ jpc' = "done" => UNCHANGED <<receivedBranches, branchMutex>>
     /\ jpc = "done" => (jpc' = "done" /\ branchMutex' # "jan")]_vars

\* the janitor has ended after a Close and an entry older than 30 seconds
\* stays in receivedBranches
C17_Witness ==
  /\ jpc = "done" /\ hist.closesDone >= 1
  /\ Found(BranchA) /\ now - receivedBranches[BranchA] > Retention

\* C18: requestChannel holds no item: the item of a sender stays with the
\* sender, which stays in its send, until an AcceptRequest call at its
\* receive or a Close call at its select takes it; so there are never more
\* undelivered items than senders, and with no receiver a sender stays blocked.
C18_SenderBlockedUntilReceived ==
  [][\A s \in Senders :
       out[s] # NoItem
         => \/ /\ out'[s] = out[s]
               /\ SenderReady(s) => SenderReady(s)'
            \/ /\ SenderReady(s) /\ out'[s] = NoItem
               /\ \/ \E c \in Consumers : apc[c] = "recv" /\ apc'[c] # "recv"
                  \/ \E p \in CloseCallers : cpc[p] = "drain" /\ cpc'[p] = "drain"]_vars

\* every sender is blocked in its send at once: the two loops with their
\* error items, the connection's read path with a request
C18_Witness ==
  /\ \A s \in Senders : SenderReady(s)
  /\ out["rd"].kind = "req" /\ \A t \in Loops : out[t].kind = "err"

\* the items that can still be offered on requestChannel: the requests yet to
\* arrive, the items senders hold, and one error item for each loop that has
\* not made its own and has not ended
Offerable ==
  (load.msgs - hist.msgs)
  + Cardinality({s \in Senders : out[s] # NoItem})
  + Cardinality({t \in Loops : lpc[t] \in {"off", "listen", "failed", "deliver", "send"}
                                 /\ out[t].kind # "err"})

C20_NoRequestReturnedAfterClose ==
  [][\A c \in Consumers :
       (hist.closesDone >= 1 /\ ret'[c] # ret[c]) => ret'[c].err # "nil"]_vars
====
